---- MODULE Spec2Model ----
(***************************************************************************)
(* Model of the gate counter session of src/People_Counter.py              *)
(* (count_people_live_camera): capture handle, muxing subprocess, greedy   *)
(* first-match tracking, one-shot line crossing, capacity alert latch.     *)
(* One frame of the loop (read, detect, associate, count, alert) is one    *)
(* step; write, key poll and pacing are the following steps.               *)
(* A session is either that one or a WebSocket session of                   *)
(* src/AI_RTMP_Server/main.py (websocket_endpoint, process_frame_realtime): *)
(* density tiers, the face-match gate, one message per processed frame.    *)
(***************************************************************************)
EXTENDS Integers, Sequences, FiniteSets

\* ---------------------------------------------------------------- bounds
\* most person detections the detector reports in one frame
MaxDet == 2
\* the same in the scene PoolB, where a single person walks past the line
MaxDetB == 1
\* exploration stops allocating track ids at this value of next_id
MaxNextId == 3
\* the same cap for sessions watching the single-spot scene PoolC
MaxNextIdC == 32
\* longest processing time of a cycle, in ticks
MaxDuration == 7
\* most frames a source that ends delivers
MaxFrames == 2
\* frames a WebSocket session processes before exploration stops
MaxWsFrames == 61
\* most persons the detector reports in one frame of a WebSocket session
MaxPeople == 63

\* ------------------------------------------------------ program constants
\* People_Counter.py:126  "< 50"
DistThreshold == 50
\* People_Counter.py:39   line_position=300
DefaultLine == 300
\* People_Counter.py:39   threshold_count=30
DefaultThreshold == 30
\* People_Counter.py:163  "send_counter < 1"
SendLimit == 1
\* People_Counter.py:45, 51  fps = 30
DefaultFps == 30
\* time unit: a second has 150 ticks, so 1/30 s and 1/25 s are whole ticks
TicksPerSecond == 150
\* shortest processing time explored, in ticks
MinDuration == 4
\* the threshold of the comparison session that is fed the same frames
TwinThreshold == 0
\* People_Counter.py:61-62  the output frame size given to ffmpeg (-s 800x600)
Width == 800
Height == 600
\* People_Counter.py:72  -pix_fmt bgr24
BytesPerPixel == 3
\* main.py:70, 72  cv2.resize(frame, (640, 480)); frame_area = shape[0] * shape[1]
FrameWidth == 640
FrameHeight == 480
\* main.py:91  frame_count % 30
Cadence == 30
\* main.py:42-44, 48-50  the density boundaries 0.0001, 0.00015, 0.0002 as fractions
Boundary1 == [num |-> 1, den |-> 10000]
Boundary2 == [num |-> 3, den |-> 20000]
Boundary3 == [num |-> 1, den |-> 5000]

\* ------------------------------------------------------------ input sets
\* centroids (cx, cy) the detector can report, grouped by camera scene
PoolA == { <<100, 100>>, <<105, 104>>, <<500, 500>>, <<800, 800>> }
PoolB == { <<100, 250>>, <<100, 280>>, <<100, 310>>, <<100, 340>> }
PoolC == { <<100, 310>> }
\* a centroid on the line, one 30 px below it, one exactly 50 px below it
PoolD == { <<100, 300>>, <<100, 330>>, <<100, 350>> }
\* one centroid on either side of the line, 30 px apart
PoolU == { <<100, 280>>, <<100, 310>> }
Pools == { PoolA, PoolB, PoolC, PoolD, PoolU }
\* the sessions explored: scene, counted direction, occupancy threshold
Sessions ==
    { [pool |-> PoolA, direction |-> "down", threshold_count |-> 1],
      [pool |-> PoolB, direction |-> "down", threshold_count |-> 1],
      [pool |-> PoolC, direction |-> "down", threshold_count |-> DefaultThreshold],
      [pool |-> PoolD, direction |-> "down", threshold_count |-> 1],
      [pool |-> PoolU, direction |-> "up", threshold_count |-> 1] }
\* the source of a scene: live camera or video file, the frame rate the file
\* reports, the size of the frames it delivers, and what the Telegram notifier
\* does when called
SourceOf(p) ==
    IF p = PoolA THEN [showCam |-> FALSE, src_fps |-> 30, src_w |-> 640, src_h |-> 480,
                       notifier |-> "delivers"]
    ELSE IF p = PoolB THEN [showCam |-> FALSE, src_fps |-> 0, src_w |-> 1280, src_h |-> 720,
                            notifier |-> "raises"]
    ELSE IF p = PoolD THEN [showCam |-> FALSE, src_fps |-> 25, src_w |-> 800, src_h |-> 600,
                            notifier |-> "unconfigured"]
    ELSE IF p = PoolU THEN [showCam |-> FALSE, src_fps |-> -1, src_w |-> 1600, src_h |-> 1200,
                            notifier |-> "raises"]
    ELSE [showCam |-> TRUE, src_fps |-> 0, src_w |-> 1280, src_h |-> 720,
          notifier |-> "delivers"]
\* processing times of a cycle, in ticks
Durations == MinDuration..MaxDuration
\* a file of the known_faces directory: os.path.splitext of its name
File(stem, ext) == [stem |-> stem, ext |-> ext]
\* contents of the known_faces directory when a session starts: empty, or one reference image
Registries == { { }, { File(<< "jane_doe" >>, ".jpg") } }
\* the cache file the face-management endpoints remove
ExpectedCache == File(<< "representations_vgg_face" >>, ".pkl")
\* the cache file DeepFace.find writes into db_path: its name is chosen by the
\* installed deepface release (representations_<model>.pkl in the older ones,
\* ds_<model>_<detector>...pkl in the newer ones)
CacheFiles == { ExpectedCache, File(<< "ds_model_vggface_detector_retinaface" >>, ".pkl") }
\* names sent in the form field of POST /faces, as sequences of characters
RawNames == { << "a" >>, << "A" >>, << "a", " ", "b" >>, << "!" >> }
\* extensions of the uploaded file's name
RawExts == { ".jpg", ".JPG", ".png", ".gif" }
\* names sent in the path of DELETE /faces/{face_name}
DeleteNames == { << "a" >>, << "a", "_", "b" >>, << "c" >>, << "representations_vgg_face" >> }
\* what DeepFace.find does when called: rows found, no rows found, an exception
MatcherOutcomes == { "match", "nomatch", "error" }

\* the frame scripts of the end-to-end scenarios A and B
ScenarioA == << << <<100, 100>>, <<500, 500>> >>, << <<105, 104>>, <<800, 800>> >> >>
ScenarioB == << << <<100, 250>> >>, << <<100, 280>> >>, << <<100, 310>> >>, << <<100, 340>> >> >>

VARIABLES
    pc,             \* position in count_people_live_camera
    cap,            \* capture handle: "none", "open", "released"
    cap_ok,         \* whether the capture source could be opened
    ffmpeg,         \* muxing subprocess: "none", "running", "exited", "terminated"
    stdin,          \* its stdin pipe: "none", "open", "closed"
    line_position, direction, threshold_count,   \* arguments of the session
    pool,           \* centroids the detector can report in this session
    centroids,      \* person centroids of the current frame, input order
    tracked,        \* live tracks in dict insertion order: [id, c, counted]
    next_id, total_count, send_counter,
    notify_calls,   \* invocations of send_telegram_message
    credits,        \* credits[id + 1]: executions of total_count += 1 in the loop body of track id
    scenA, scenB,   \* frames of ScenarioA / ScenarioB replayed so far, -1 once the input differs
    showCam,        \* argument: live camera (TRUE) or video file
    src_fps,        \* frame rate the video file reports
    src_w, src_h,   \* width and height of the frames cap.read() delivers
    notifier,       \* send_telegram_message: "delivers", "unconfigured" (no token) or "raises"
    fps,            \* target frame rate of the session
    event,          \* the last message the session logged, or the exception that is propagating
    slept,          \* ticks slept by the frame rate control that has just run
    warned,         \* whether the frame rate control that has just run printed "Processing too slow"
    in_hand,        \* captured frames not yet handed to the sink
    attempts,       \* hand-overs to the sink attempted for the frame captured last
    written,        \* bytes of the buffer passed to stdin.write for the frame captured last
    frames_left,    \* frames the source still holds, -1 for a source without end
    twin,           \* tracks and counters of a session with TwinThreshold fed the same frames
    kind,           \* which entry point runs: "rtmp" (count_people_live_camera) or "ws" (websocket_endpoint)
    db,             \* files in the known_faces directory
    cache_file,     \* the cache file the installed DeepFace.find writes
    response,       \* the response of the face-management request handled last
    ws,             \* the WebSocket: "none", "accepted", "closed" by the server, "disconnected" by the peer
    frame_count,    \* websocket_endpoint: index of the next frame
    people_count,   \* metrics of the frame being sent
    density6,       \* its "density" field: round(density, 6), in millionths
    risk,
    status,
    detected,       \* detected_persons of the frame being sent
    face_called,    \* whether DeepFace.find was called for the frame being sent
    alone           \* the same WebSocket session fed the same frames with no other session running

vars == << pc, cap, cap_ok, ffmpeg, stdin, line_position, direction, threshold_count,
           pool, centroids, tracked, next_id, total_count, send_counter,
           notify_calls, credits, scenA, scenB,
           showCam, src_fps, src_w, src_h, notifier, fps, event, slept, warned,
           in_hand, attempts, written, frames_left, twin,
           kind, db, cache_file, response, ws, frame_count, people_count, density6, risk, status, detected, face_called, alone >>

args == << line_position, direction, threshold_count, pool, showCam, src_fps,
          src_w, src_h, notifier, kind, cache_file >>
config == << args, db >>
counting == << centroids, tracked, next_id, total_count, send_counter, notify_calls, credits, scenA, scenB, twin >>
resources == << cap, cap_ok, ffmpeg, stdin >>
pacing == << slept, warned >>
sink == << in_hand, attempts, written >>
metrics == << people_count, density6, risk, status, detected, face_called, alone >>
wsvars == << ws, frame_count, metrics >>
rtmpvars == << ffmpeg, stdin, counting, fps, pacing >>

\* ------------------------------------------------------------- helpers
\* all sequences over S of length at most n
SeqUpTo(S, n) == UNION { [1..k -> S] : k \in 0..n }

\* the detection lists a frame of each scene can yield
Detections == [p \in Pools |-> SeqUpTo(p, IF p = PoolB THEN MaxDetB ELSE MaxDet)]

\* squared Euclidean distance of two integer centroids
Dist2(a, b) == (a[1] - b[1]) * (a[1] - b[1]) + (a[2] - b[2]) * (a[2] - b[2])

\* the comparison written "<= 50"
NearInclusive(c, old_c) == Dist2(c, old_c) <= DistThreshold * DistThreshold

\* np.linalg.norm(c - old_c) < 50 on integer centroids
Near(c, old_c) == Dist2(c, old_c) < DistThreshold * DistThreshold

Ids(trk) == { trk[i].id : i \in 1..Len(trk) }

\* index of the first track, in insertion order, within the threshold of c; 0 if none
FirstMatch(trk, c) ==
    IF \E i \in 1..Len(trk) : Near(c, trk[i].c)
    THEN CHOOSE i \in 1..Len(trk) :
            /\ Near(c, trk[i].c)
            /\ \A j \in 1..(i - 1) : ~Near(c, trk[j].c)
    ELSE 0

\* new_tracked[id] = (c, counted): replaces in place when the key exists, else appends
DictPut(d, id, c, counted) ==
    IF id \in Ids(d)
    THEN [i \in 1..Len(d) |-> IF d[i].id = id THEN [id |-> id, c |-> c, counted |-> counted] ELSE d[i]]
    ELSE Append(d, [id |-> id, c |-> c, counted |-> counted])

\* the frame's dict updated in place instead of rebuilt
NewTrackedKeepsOld(trk) == trk

\* new_tracked = {}
NewTracked(trk) == << >>

\* a matched track stored as (c, False)
CarriedFlagReset(counted) == FALSE

\* the flag stored for a matched track: (c, counted)
CarriedFlag(counted) == counted

\* the increment of next_id left out
NextFreshStuck(nid) == nid

\* next_id += 1
NextFresh(nid) == nid + 1

\* the association loop over the frame's centroids
RECURSIVE Associate(_, _, _, _)
Associate(trk, cs, nt, nid) ==
    IF cs = << >>
    THEN [new_tracked |-> nt, next_id |-> nid]
    ELSE LET c == Head(cs)
             m == FirstMatch(trk, c)
         IN  IF m # 0
             THEN Associate(trk, Tail(cs), DictPut(nt, trk[m].id, c, CarriedFlag(trk[m].counted)), nid)
             ELSE Associate(trk, Tail(cs), DictPut(nt, nid, c, FALSE), NextFresh(nid))

\* the crossing tests written ">=" and "<="
CrossesInclusive(c) ==
    \/ direction = "down" /\ c[2] >= line_position
    \/ direction = "up" /\ c[2] <= line_position

\* the crossing predicate of the session's direction and line
Crosses(c) ==
    \/ direction = "down" /\ c[2] > line_position
    \/ direction = "up" /\ c[2] < line_position

\* the counting loop without the write-back of the flag
CountCrossingsForgetful(nt) == nt

\* the counting loop: flags of the tracks after it
CountCrossings(nt) ==
    [i \in 1..Len(nt) |->
        IF ~nt[i].counted /\ Crosses(nt[i].c) THEN [nt[i] EXCEPT !.counted = TRUE] ELSE nt[i]]

\* a counting loop that also credits an uncounted track lying on the line
CreditedOnLine(nt) == { nt[i].id : i \in { j \in 1..Len(nt) : ~nt[j].counted /\ CrossesInclusive(nt[j].c) } }

\* the counting loop: ids of the tracks whose loop body executes total_count += 1
Credited(nt) == { nt[i].id : i \in { j \in 1..Len(nt) : ~nt[j].counted /\ Crosses(nt[j].c) } }

\* the counting loop without the "if not counted" test
IncrementsIgnoringFlag(nt) == Cardinality({ i \in 1..Len(nt) : Crosses(nt[i].c) })

\* the counting loop: number of total_count += 1 it executes
Increments(nt) == Cardinality({ i \in 1..Len(nt) : ~nt[i].counted /\ Crosses(nt[i].c) })

\* the alert without the send_counter latch
AlertFiresUnlatched(total, sent) == total > threshold_count

\* whether this frame invokes send_telegram_message
AlertFires(total, sent) == total > threshold_count /\ sent < SendLimit

\* a latch that is consumed only by a delivered notification
LatchOnDelivery(sent, outcome) == IF outcome = "alert" THEN sent + 1 ELSE sent

\* send_counter += 1 after the call of send_telegram_message, whatever it did
Latch(sent, outcome) == sent + 1

\* progress of replaying a scenario script
Advance(n, script, dets) ==
    IF n >= 0 /\ n < Len(script) /\ script[n + 1] = dets THEN n + 1 ELSE -1

IdCap == IF pool = PoolC THEN MaxNextIdC ELSE MaxNextId


\* a fallback that replaces only a reported rate of exactly zero
TargetFpsZeroOnly(cam, reported) ==
    IF cam THEN DefaultFps ELSE IF reported = 0 THEN DefaultFps ELSE reported

\* the target frame rate: 30 for a camera, else the reported rate, 30 when that is not positive
TargetFps(cam, reported) ==
    IF cam THEN DefaultFps ELSE IF reported <= 0 THEN DefaultFps ELSE reported

\* frame_interval = 1.0 / fps, in ticks
FrameInterval(f) == TicksPerSecond \div f

\* a frame rate control that takes the sleeping branch whenever the budget is not exceeded
SleepsInclusive(interval, d) == interval - d >= 0

\* sleep_time = frame_interval - processing_time; if sleep_time > 0
Sleeps(interval, d) == interval - d > 0

\* tracking and counting that stop once the counter is above the threshold
TrackAndCountUntilCapacity(thr, trk, nid, total, a) ==
    IF total > thr
    THEN [tracked |-> trk, next_id |-> nid, total_count |-> total, credited |-> { }]
    ELSE [tracked |-> CountCrossings(a.new_tracked),
          next_id |-> a.next_id,
          total_count |-> total + Increments(a.new_tracked),
          credited |-> Credited(a.new_tracked)]

\* tracking and counting of one frame, a being the outcome of the association loop;
\* threshold_count (thr) is in scope and not used
TrackAndCount(thr, trk, nid, total, a) ==
    [tracked |-> CountCrossings(a.new_tracked),
     next_id |-> a.next_id,
     total_count |-> total + Increments(a.new_tracked),
     credited |-> Credited(a.new_tracked)]

\* imutils.resize(frame, width=width) keeps the aspect ratio of a w x h frame:
\* the result is width pixels wide and int(h * (width / w)) pixels high
ResizedHeight(w, h) == (h * Width) \div w

\* len(frame.tobytes()) of the resized three-channel frame
BufferBytes(w, h) == Width * ResizedHeight(w, h) * BytesPerPixel

\* what a call of send_telegram_message logs
send_telegram_message(n) ==
    IF n = "unconfigured" THEN "notifier_unconfigured"
    ELSE IF n = "raises" THEN "notifier_error"
    ELSE "alert"

\* density = people_count / frame_area, kept as a fraction
Density(n, area) == [num |-> n, den |-> area]

\* density < boundary
Below(density, boundary) == density.num * boundary.den < boundary.num * density.den

\* round(people_count / frame_area, 6) in millionths; no count within the
\* bounds lies halfway between two millionths, so the tie rule plays no part
Round6(n, area) == (2 * n * 1000000 + area) \div (2 * area)

\* a risk table whose labels are not in ascending order
get_crowd_risk_unordered(density) ==
    IF Below(density, Boundary1) THEN "Low"
    ELSE IF Below(density, Boundary2) THEN "High"
    ELSE IF Below(density, Boundary3) THEN "Medium"
    ELSE "Critical"

get_crowd_risk(density) ==
    IF Below(density, Boundary1) THEN "Low"
    ELSE IF Below(density, Boundary2) THEN "Medium"
    ELSE IF Below(density, Boundary3) THEN "High"
    ELSE "Critical"

\* a status table whose second boundary has drifted from that of the risk table
get_crowd_status_drifted(density) ==
    IF Below(density, Boundary1) THEN "Stable"
    ELSE IF Below(density, [num |-> 4, den |-> 25000]) THEN "Unstable"
    ELSE IF Below(density, Boundary3) THEN "Congested"
    ELSE "Critical"

get_crowd_status(density) ==
    IF Below(density, Boundary1) THEN "Stable"
    ELSE IF Below(density, Boundary2) THEN "Unstable"
    ELSE IF Below(density, Boundary3) THEN "Congested"
    ELSE "Critical"

\* a gate that forgets the cadence
FaceGateEveryFrame(files, index, n) == files # { } /\ n > 0

\* os.listdir(DEEPFACE_DB_PATH) and frame_count % 30 == 0 and people_count > 0
FaceGate(files, index, n) == files # { } /\ index % Cadence = 0 /\ n > 0

\* f.lower() of the characters and extensions explored
Lower(ch) ==
    IF ch = "A" THEN "a"
    ELSE IF ch = ".JPG" THEN ".jpg"
    ELSE ch

\* [a-z0-9_] among the characters explored
SafeChars == { "a", "b", "_" }

\* re.sub(r'[^a-z0-9_]', '', name.lower().replace(' ', '_'))
Sanitize(name) ==
    SelectSeq([i \in 1..Len(name) |-> IF Lower(name[i]) = " " THEN "_" ELSE Lower(name[i])],
              LAMBDA ch : ch \in SafeChars)

ImageExts == { ".png", ".jpg", ".jpeg" }

\* the files f of a listing with f.lower().endswith(('.png', '.jpg', '.jpeg'))
Images(files) == { f \in files : Lower(f.ext) \in ImageExts }

\* the names in the list GET /faces returns: os.path.splitext(f)[0] of the images
KnownFaces(files) == { f.stem : f \in Images(files) }

NoResponse == [op |-> "none", code |-> 0, name |-> << >>, names |-> { }]

\* ---------------------------------------------------------------- Init
Setup ==
    /\ kind \in { "rtmp", "ws", "faces" }
    /\ pc = IF kind = "faces" THEN "serving" ELSE "start"
    /\ cap = "none"
    /\ cap_ok = FALSE
    /\ ffmpeg = "none"
    /\ stdin = "none"
    /\ line_position = DefaultLine
    /\ \E s \in { x \in Sessions : kind = "rtmp" \/ x.pool = PoolC } :
        /\ pool = s.pool
        /\ direction = s.direction
        /\ threshold_count = s.threshold_count
        /\ showCam = SourceOf(s.pool).showCam
        /\ src_fps = SourceOf(s.pool).src_fps
        /\ src_w = SourceOf(s.pool).src_w
        /\ src_h = SourceOf(s.pool).src_h
        /\ notifier = SourceOf(s.pool).notifier
    /\ db \in { r \in Registries : kind = "ws" \/ r = { } }
    /\ cache_file \in { f \in CacheFiles : kind = "faces" \/ f = ExpectedCache }
    /\ response = NoResponse
    /\ ws = "none"
    /\ frame_count = 0
    /\ people_count = 0
    /\ density6 = 0
    /\ risk = "none"
    /\ status = "none"
    /\ detected = { }
    /\ face_called = FALSE
    /\ alone = [db |-> db, frame_count |-> 0, face_called |-> FALSE, detected |-> { }]
    /\ centroids = << >>
    /\ tracked = << >>
    /\ next_id = 0
    /\ total_count = 0
    /\ send_counter = 0
    /\ notify_calls = 0
    /\ credits = << >>
    /\ scenA = 0
    /\ scenB = 0
    /\ fps = 0
    /\ event = "none"
    /\ slept = 0
    /\ warned = FALSE
    /\ in_hand = 0
    /\ attempts = 0
    /\ written = 0
    /\ twin = [tracked |-> << >>, next_id |-> 0, total_count |-> 0]

\* ------------------------------------------------------------- actions
\* cv2.VideoCapture(...): the handle exists afterwards whether or not the source opened;
\* a source that did not open reports a frame rate of 0
OpenCapture ==
    /\ pc = "start"
    /\ kind = "rtmp"
    /\ cap' = "open"
    /\ \E ok \in BOOLEAN :
        /\ cap_ok' = ok
        /\ fps' = TargetFps(showCam, IF ok THEN src_fps ELSE 0)
    /\ pc' = "opened"
    /\ UNCHANGED << response, frames_left, wsvars, ffmpeg, stdin, config, counting, event, pacing, sink >>

\* subprocess.Popen(ffmpeg_cmd, stdin=PIPE) succeeds; session state is initialised
StartFfmpeg ==
    /\ pc = "opened"
    /\ ffmpeg' = "running"
    /\ stdin' = "open"
    /\ tracked' = << >>
    /\ next_id' = 0
    /\ total_count' = 0
    /\ pc' = "loop"
    /\ UNCHANGED << response, frames_left, wsvars, cap, cap_ok, config, centroids, send_counter, notify_calls, credits, scenA, scenB,
                    twin, fps, event, pacing, sink >>

\* subprocess.Popen raises (no ffmpeg executable): the exception leaves the function
StartFfmpegFails ==
    /\ pc = "opened"
    /\ pc' = "raised"
    /\ event' = "popen_error"
    /\ UNCHANGED << response, frames_left, wsvars, resources, config, counting, fps, pacing, sink >>

\* a read that is attempted again after it failed
ReadFailsRetries ==
    /\ pc = "loop"
    /\ pc' = "loop"
    /\ event' = "read_failed"
    /\ UNCHANGED << response, frames_left, wsvars, resources, config, counting, fps, pacing, sink >>

\* cap.read() returns ret = False: "Failed to grab frame or end of video", break
ReadFails ==
    /\ pc = "loop"
    /\ pc' = "finally"
    /\ event' = "read_failed"
    /\ UNCHANGED << response, frames_left, wsvars, resources, config, counting, fps, pacing, sink >>

\* cap.read() delivers a frame and the detector raises: no handler in the loop,
\* the finally block runs and the exception leaves the function
DetectorRaises ==
    /\ pc = "loop"
    /\ cap_ok
    /\ pc' = "finally"
    /\ event' = "detector_error"
    /\ in_hand' = 1
    /\ attempts' = 0
    /\ written' = 0
    /\ frames_left # 0
    /\ frames_left' = IF frames_left > 0 THEN frames_left - 1 ELSE frames_left
    /\ UNCHANGED << response, wsvars, resources, config, counting, fps, pacing >>

\* cap.read() delivers a frame; detection, tracking, counting, status/alert
ProcessFrame(dets) ==
    /\ \E r \in { TrackAndCount(threshold_count, tracked, next_id, total_count,
                                Associate(tracked, dets, NewTracked(tracked), next_id)) } :
           /\ r.next_id <= IdCap
           /\ credits' = [i \in 1..r.next_id |->
                            (IF i <= Len(credits) THEN credits[i] ELSE 0)
                            + (IF (i - 1) \in r.credited THEN 1 ELSE 0)]
           /\ centroids' = dets
           /\ tracked' = r.tracked
           /\ next_id' = r.next_id
           /\ total_count' = r.total_count
           /\ IF AlertFires(r.total_count, send_counter)
              THEN /\ notify_calls' = notify_calls + 1
                   /\ send_counter' = Latch(send_counter, send_telegram_message(notifier))
                   /\ event' = send_telegram_message(notifier)
              ELSE /\ UNCHANGED << notify_calls, send_counter >>
                   /\ event' = "none"
    /\ \E t \in { TrackAndCount(TwinThreshold, twin.tracked, twin.next_id, twin.total_count,
                                Associate(twin.tracked, dets, NewTracked(twin.tracked), twin.next_id)) } :
           twin' = [tracked |-> t.tracked, next_id |-> t.next_id, total_count |-> t.total_count]
    /\ scenA' = Advance(scenA, ScenarioA, dets)
    /\ scenB' = Advance(scenB, ScenarioB, dets)
    /\ in_hand' = in_hand + 1
    /\ attempts' = 0
    /\ written' = 0
    /\ pc' = "write"
    /\ frames_left # 0
    /\ frames_left' = IF frames_left > 0 THEN frames_left - 1 ELSE frames_left
    /\ UNCHANGED << response, wsvars, resources, config, fps, pacing >>

\* a write that is issued again for the frame it has just written
WriteFrameAgain ==
    /\ pc = "write"
    /\ pc' = "write"
    /\ attempts' = attempts + 1
    /\ written' = BufferBytes(src_w, src_h)
    /\ UNCHANGED << response, frames_left, wsvars, resources, config, counting, fps, event, pacing, in_hand >>

\* stdin.write + flush succeed
WriteFrame ==
    /\ pc = "write"
    /\ pc' = "waitkey"
    /\ in_hand' = in_hand - 1
    /\ attempts' = attempts + 1
    /\ written' = BufferBytes(src_w, src_h)
    /\ UNCHANGED << response, frames_left, wsvars, resources, config, counting, fps, event, pacing >>

\* a handler that logs the broken pipe and carries on with the iteration
WriteBrokenPipeContinues ==
    /\ pc = "write"
    /\ ffmpeg' \in { "running", "exited" }
    /\ pc' = "waitkey"
    /\ event' = "broken_pipe"
    /\ in_hand' = in_hand - 1
    /\ attempts' = attempts + 1
    /\ written' = BufferBytes(src_w, src_h)
    /\ UNCHANGED << response, frames_left, wsvars, cap, cap_ok, stdin, config, counting, fps, pacing >>

\* stdin.write raises BrokenPipeError (the subprocess exited or closed its end): break
WriteBrokenPipe ==
    /\ pc = "write"
    /\ ffmpeg' \in { "running", "exited" }
    /\ pc' = "finally"
    /\ event' = "broken_pipe"
    /\ in_hand' = in_hand - 1
    /\ attempts' = attempts + 1
    /\ written' = BufferBytes(src_w, src_h)
    /\ UNCHANGED << response, frames_left, wsvars, cap, cap_ok, stdin, config, counting, fps, pacing >>

\* cv2.waitKey(1): the quit key breaks the loop
WaitKey ==
    /\ pc = "waitkey"
    /\ pc' \in { "pace", "finally" }
    /\ UNCHANGED << response, frames_left, wsvars, resources, config, counting, fps, event, pacing, sink >>

\* frame rate control after a cycle that took d ticks
Pace(d) ==
    /\ pc = "pace"
    /\ IF Sleeps(FrameInterval(fps), d)
       THEN slept' = FrameInterval(fps) - d /\ warned' = FALSE
       ELSE slept' = 0 /\ warned' = ~showCam
    /\ pc' = "paced"
    /\ UNCHANGED << response, frames_left, wsvars, resources, config, counting, fps, event, sink >>

\* the next iteration of while True
LoopBack ==
    /\ pc = "paced"
    /\ pc' = "loop"
    /\ slept' = 0
    /\ warned' = FALSE
    /\ UNCHANGED << response, frames_left, wsvars, resources, config, counting, fps, event, sink >>

\* KeyboardInterrupt: caught inside the try block, propagates outside of it
KeyboardInterrupt ==
    /\ pc \in { "opened", "loop", "write", "waitkey", "pace", "paced" }
    /\ pc' = IF pc = "opened" THEN "raised" ELSE "finally"
    /\ event' = "interrupt"
    /\ slept' = 0
    /\ warned' = FALSE
    /\ UNCHANGED << response, frames_left, written, wsvars, resources, config, counting, fps, sink >>

\* the finally block; an exception that no except clause caught leaves the function after it
Cleanup ==
    /\ pc = "finally"
    /\ cap' = "released"
    /\ IF ffmpeg = "running"
       THEN ffmpeg' = "terminated" /\ stdin' = "closed"
       ELSE UNCHANGED << ffmpeg, stdin >>
    /\ pc' = IF event = "detector_error" THEN "raised" ELSE "returned"
    /\ event' = "final_count"
    /\ UNCHANGED << response, frames_left, wsvars, cap_ok, config, counting, fps, pacing, sink >>

\* ------------------------------------------- actions of websocket_endpoint
\* websocket.accept(), cv2.VideoCapture(rtmp_url), cap.isOpened() is true
WsOpen ==
    /\ pc = "start"
    /\ kind = "ws"
    /\ ws' = "accepted"
    /\ cap' = "open"
    /\ cap_ok' = TRUE
    /\ frame_count' = 0
    /\ pc' = "ws_loop"
    /\ UNCHANGED << response, frames_left, rtmpvars, config, event, sink, metrics >>

\* cap.isOpened() is false: log "Failed to open", close the socket with 1011, return
WsOpenFails ==
    /\ pc = "start"
    /\ kind = "ws"
    /\ ws' = "closed"
    /\ cap' = "open"
    /\ cap_ok' = FALSE
    /\ event' = "open_failed"
    /\ pc' = "returned"
    /\ UNCHANGED << response, frames_left, rtmpvars, config, sink, frame_count, metrics >>

\* cap.read() returns ret = False: break
WsReadFails ==
    /\ pc = "ws_loop"
    /\ pc' = "ws_finally"
    /\ UNCHANGED << response, frames_left, resources, rtmpvars, config, event, sink, wsvars >>

\* the detector raises inside process_frame_realtime: except Exception of the endpoint
WsDetectorRaises ==
    /\ pc = "ws_loop"
    /\ event' = "detector_error"
    /\ in_hand' = 1
    /\ attempts' = 0
    /\ pc' = "ws_finally"
    /\ frames_left # 0
    /\ frames_left' = IF frames_left > 0 THEN frames_left - 1 ELSE frames_left
    /\ UNCHANGED << response, written, resources, rtmpvars, config, wsvars >>

\* process_frame_realtime(frame, frame_count) for a frame with n persons; frame_count += 1
WsProcessFrame(n, m) ==
    /\ pc = "ws_loop"
    /\ frame_count < MaxWsFrames
    /\ people_count' = n
    /\ density6' = Round6(n, FrameHeight * FrameWidth)
    /\ risk' = get_crowd_risk(Density(n, FrameHeight * FrameWidth))
    /\ status' = get_crowd_status(Density(n, FrameHeight * FrameWidth))
    /\ IF FaceGate(db, frame_count, n)
       THEN /\ face_called' = TRUE
            /\ detected' = IF m = "match" THEN Images(db) ELSE { }
            /\ event' = IF m = "error" THEN "matcher_error" ELSE "none"
            /\ db' = db \cup { cache_file }
       ELSE /\ face_called' = FALSE
            /\ detected' = { }
            /\ event' = "none"
            /\ db' = db
    /\ alone' = IF FaceGate(alone.db, alone.frame_count, n)
                THEN [db |-> alone.db \cup { cache_file },
                      frame_count |-> alone.frame_count + 1,
                      face_called |-> TRUE,
                      detected |-> IF m = "match" THEN Images(alone.db) ELSE { }]
                ELSE [db |-> alone.db,
                      frame_count |-> alone.frame_count + 1,
                      face_called |-> FALSE,
                      detected |-> { }]
    /\ frame_count' = frame_count + 1
    /\ in_hand' = 1
    /\ attempts' = 0
    /\ pc' = "ws_send"
    /\ frames_left # 0
    /\ frames_left' = IF frames_left > 0 THEN frames_left - 1 ELSE frames_left
    /\ UNCHANGED << response, written, resources, rtmpvars, args, ws >>

\* websocket.send_json succeeds, asyncio.sleep(0.01), next iteration
WsSend ==
    /\ pc = "ws_send"
    /\ in_hand' = in_hand - 1
    /\ attempts' = attempts + 1
    /\ people_count' = 0
    /\ density6' = 0
    /\ risk' = "none"
    /\ status' = "none"
    /\ detected' = { }
    /\ face_called' = FALSE
    /\ alone' = [alone EXCEPT !.face_called = FALSE, !.detected = { }]
    /\ pc' = "ws_loop"
    /\ UNCHANGED << response, frames_left, written, resources, rtmpvars, config, event, ws, frame_count >>

\* a handler that tries the same message again after the peer has gone
WsSendFailsRetries ==
    /\ pc = "ws_send"
    /\ attempts' = attempts + 1
    /\ event' = "disconnect"
    /\ ws' = "disconnected"
    /\ pc' = "ws_send"
    /\ UNCHANGED << response, frames_left, written, resources, rtmpvars, config, frame_count, in_hand, metrics >>

\* websocket.send_json raises WebSocketDisconnect: "Client disconnected"
WsSendFails ==
    /\ pc = "ws_send"
    /\ in_hand' = in_hand - 1
    /\ attempts' = attempts + 1
    /\ people_count' = 0
    /\ density6' = 0
    /\ risk' = "none"
    /\ status' = "none"
    /\ detected' = { }
    /\ face_called' = FALSE
    /\ alone' = [alone EXCEPT !.face_called = FALSE, !.detected = { }]
    /\ event' = "disconnect"
    /\ ws' = "disconnected"
    /\ pc' = "ws_finally"
    /\ UNCHANGED << response, frames_left, written, resources, rtmpvars, config, frame_count >>

\* the finally block of the endpoint: cap.release(), "Stream released"; the socket is not closed
WsFinally ==
    /\ pc = "ws_finally"
    /\ cap' = "released"
    /\ event' = "stream_released"
    /\ pc' = "returned"
    /\ UNCHANGED << response, frames_left, cap_ok, rtmpvars, config, sink, wsvars >>

\* ------------------------------------- the face-management endpoints
\* GET /faces
get_known_faces ==
    /\ pc = "serving"
    /\ kind = "faces"
    /\ response' = [op |-> "GET", code |-> 200, name |-> << >>, names |-> KnownFaces(db)]
    /\ pc' = "responded"
    /\ UNCHANGED << frames_left, resources, rtmpvars, wsvars, config, event, sink >>

\* POST /faces with form field name and an uploaded file whose name ends in ext
add_known_face(name, ext) ==
    /\ pc = "serving"
    /\ kind = "faces"
    /\ \E safe_name \in { Sanitize(name) } :
        IF safe_name = << >> \/ Lower(ext) \notin ImageExts
        THEN /\ response' = [op |-> "POST", code |-> 400, name |-> safe_name, names |-> { }]
             /\ db' = db
        ELSE IF File(safe_name, ext) \in db
        THEN /\ response' = [op |-> "POST", code |-> 409, name |-> safe_name, names |-> { }]
             /\ db' = db
        ELSE /\ response' = [op |-> "POST", code |-> 201, name |-> safe_name, names |-> { }]
             /\ db' = (db \cup { File(safe_name, ext) }) \ { ExpectedCache }
    /\ pc' = "responded"
    /\ UNCHANGED << frames_left, resources, rtmpvars, wsvars, args, event, sink >>

\* DELETE /faces/{face_name}: the first directory entry, in the order
\* os.listdir happens to give, whose name without extension is face_name
delete_known_face(face_name) ==
    /\ pc = "serving"
    /\ kind = "faces"
    /\ IF \E f \in db : f.stem = face_name
       THEN /\ \E f \in { g \in db : g.stem = face_name } :
                db' = (db \ { f }) \ { ExpectedCache }
            /\ response' = [op |-> "DELETE", code |-> 200, name |-> face_name, names |-> { }]
       ELSE /\ db' = db
            /\ response' = [op |-> "DELETE", code |-> 404, name |-> face_name, names |-> { }]
    /\ pc' = "responded"
    /\ UNCHANGED << frames_left, resources, rtmpvars, wsvars, args, event, sink >>

\* the response has been sent; the service waits for the next request
Respond ==
    /\ pc = "responded"
    /\ response' = NoResponse
    /\ pc' = "serving"
    /\ UNCHANGED << frames_left, resources, rtmpvars, wsvars, config, event, sink >>

\* sessions that draw their frame index from one module-level counter
OtherSessionFrameSharedIndex ==
    /\ \/ kind = "faces" /\ pc = "serving"
       \/ kind = "ws" /\ pc \in { "ws_loop", "ws_send" }
    /\ db # { }
    /\ cache_file \notin db
    /\ db' = db \cup { cache_file }
    /\ frame_count' = IF kind = "ws" THEN frame_count + 1 ELSE frame_count
    /\ UNCHANGED << pc, response, frames_left, resources, rtmpvars, ws, metrics, args, event, sink >>

\* a frame of another WebSocket session passes its face gate (the directory
\* lists something, its own index and person count allow it) and calls
\* DeepFace.find, which writes the cache file beside the images
OtherSessionFrame ==
    /\ \/ kind = "faces" /\ pc = "serving"
       \/ kind = "ws" /\ pc \in { "ws_loop", "ws_send" }
    /\ db # { }
    /\ cache_file \notin db
    /\ db' = db \cup { cache_file }
    /\ UNCHANGED << pc, response, frames_left, resources, rtmpvars, wsvars, args, event, sink >>

\* a session on a source without end
Init == Setup /\ frames_left = -1

\* a session on a source that delivers finitely many frames: the camera scene
\* PoolC and the file scene PoolU
InitFinite == Setup /\ pool \in { PoolC, PoolU } /\ frames_left \in 0..MaxFrames

Next ==
    \/ OpenCapture
    \/ StartFfmpeg
    \/ StartFfmpegFails
    \/ ReadFails
    \/ DetectorRaises
    \/ /\ pc = "loop"
       /\ cap_ok
       /\ \E dets \in Detections[pool] : ProcessFrame(dets)
    \/ WriteFrame
    \/ WriteBrokenPipe
    \/ WaitKey
    \/ \E d \in Durations : Pace(d)
    \/ LoopBack
    \/ KeyboardInterrupt
    \/ Cleanup
    \/ WsOpen
    \/ WsOpenFails
    \/ WsReadFails
    \/ WsDetectorRaises
    \/ \E n \in 0..MaxPeople : \E m \in MatcherOutcomes : WsProcessFrame(n, m)
    \/ WsSend
    \/ WsSendFails
    \/ WsFinally
    \/ get_known_faces
    \/ \E name \in RawNames : \E ext \in RawExts : add_known_face(name, ext)
    \/ \E face_name \in DeleteNames : delete_known_face(face_name)
    \/ Respond
    \/ OtherSessionFrame

Spec == Init /\ [][Next]_vars

\* the steps the session takes by itself once its calls return: every step
\* but the external stop signal and the requests and frames of others
ProgramStep ==
    \/ OpenCapture
    \/ StartFfmpeg
    \/ StartFfmpegFails
    \/ ReadFails
    \/ DetectorRaises
    \/ /\ pc = "loop"
       /\ cap_ok
       /\ \E dets \in Detections[pool] : ProcessFrame(dets)
    \/ WriteFrame
    \/ WriteBrokenPipe
    \/ WaitKey
    \/ \E d \in Durations : Pace(d)
    \/ LoopBack
    \/ Cleanup
    \/ WsOpen
    \/ WsOpenFails
    \/ WsReadFails
    \/ WsDetectorRaises
    \/ \E n \in 0..MaxPeople : \E m \in MatcherOutcomes : WsProcessFrame(n, m)
    \/ WsSend
    \/ WsSendFails
    \/ WsFinally

\* sessions on finite sources; every call the session makes returns, so the
\* session does not stop between two steps
SpecFinite == InitFinite /\ [][Next]_vars /\ WF_vars(ProgramStep)

\* ------------------------------------------------------------ properties
\* a step that reads and processes one frame
FrameStep == pc = "loop" /\ pc' = "write"

\* the counted flag of track id in trk (FALSE when the id is not live)
FlagOf(trk, id) == \E i \in 1..Len(trk) : trk[i].id = id /\ trk[i].counted

\* the centroid of live track id in trk
CentroidOf(trk, id) == trk[CHOOSE i \in 1..Len(trk) : trk[i].id = id].c

\* the crossing predicate as the specification words it
PastLine(c) ==
    IF direction = "down" THEN c[2] > line_position
    ELSE IF direction = "up" THEN c[2] < line_position
    ELSE FALSE

\* C1: over the frames of a session total_count never decreases, and no track
\* id is credited with more than one increment of total_count.
C1_MonotoneOncePerId ==
    [][ /\ total_count' >= total_count
        /\ \A i \in 1..Len(credits') : credits'[i] <= 1 ]_vars

\* a track counted below the line in an earlier frame is still live, now on
\* the line, and the counter still shows its single increment
C1_Witness ==
    /\ pool = PoolD
    /\ direction = "down"
    /\ pc = "write"
    /\ tracked = << [id |-> 0, c |-> <<100, 300>>, counted |-> TRUE] >>
    /\ total_count = 1
    /\ credits = << 1 >>

\* C2: send_telegram_message is invoked exactly once in a session, in the
\* frame that first brings total_count above threshold_count; no other step
\* invokes it, and once above the threshold the counter stays above it.
C2_SingleFireLatch ==
    [][ /\ (notify_calls' = notify_calls + 1)
            <=> (total_count <= threshold_count /\ total_count' > threshold_count)
        /\ notify_calls' # notify_calls => (FrameStep /\ notify_calls' = notify_calls + 1)
        /\ notify_calls' = (IF total_count' > threshold_count THEN 1 ELSE 0)
        /\ total_count > threshold_count => total_count' > threshold_count ]_vars

\* threshold 30: the counter went past 31 to 32 and one notification was sent
C2_Witness ==
    /\ threshold_count = DefaultThreshold
    /\ total_count = DefaultThreshold + 2
    /\ notify_calls = 1

\* C3: in a frame every detection gets a track of its own. A detection takes
\* the first track, in insertion order, that lies within the threshold and was
\* not claimed by an earlier detection of the frame; when every track within
\* the threshold is claimed, or there is none, it gets a new track with a
\* fresh id. (tracked'[k] is then the track of detection k.)
C3_FirstClaimWins ==
    [][ FrameStep =>
        /\ Len(tracked') = Len(centroids')
        /\ \A k \in 1..Len(tracked') :
            LET c == centroids'[k]
                id == tracked'[k].id
                claimed == { tracked'[h].id : h \in 1..(k - 1) }
                free == { i \in 1..Len(tracked) :
                            Dist2(c, tracked[i].c) < DistThreshold * DistThreshold
                            /\ tracked[i].id \notin claimed }
            IN  /\ tracked'[k].c = c
                /\ id \notin claimed
                /\ IF free = { }
                   THEN id >= next_id
                   ELSE \E i \in free : tracked[i].id = id /\ \A j \in free : i <= j ]_vars

\* C4: a frame adds to total_count exactly the number of live tracks that
\* entered the counting loop uncounted with a centroid past the line (down:
\* cy > line, up: cy < line, never cy = line); those tracks leave it counted,
\* and without such a track total_count is unchanged.
C4_ExactIncrement ==
    [][ FrameStep =>
        LET crossing == { i \in 1..Len(tracked') :
                            ~FlagOf(tracked, tracked'[i].id) /\ PastLine(tracked'[i].c) }
        IN  /\ total_count' = total_count + Cardinality(crossing)
            /\ \A i \in crossing : tracked'[i].counted
            /\ crossing = { } => total_count' = total_count ]_vars

\* a frame with one track past the line (counted) and one exactly on the line
\* (not counted)
C4_Witness ==
    /\ pc = "write"
    /\ total_count = 1
    /\ \E i, j \in 1..Len(tracked) :
        /\ tracked[i].c[2] = line_position /\ ~tracked[i].counted
        /\ tracked[j].c[2] # line_position /\ tracked[j].counted

\* the single live track, matched by the single detection of the frame, moving
\* in the counted direction (or standing still)
SingleTrackAdvances ==
    /\ FrameStep
    /\ Len(tracked) = 1
    /\ Len(centroids') = 1
    /\ Dist2(centroids'[1], tracked[1].c) < DistThreshold * DistThreshold
    /\ IF direction = "down" THEN centroids'[1][2] >= tracked[1].c[2]
                             ELSE centroids'[1][2] <= tracked[1].c[2]

\* C5: a single continuously matched track moving in the counted direction is
\* counted in the first frame that shows its centroid past the line: an
\* uncounted live track is never past the line, it turns counted, with one
\* increment, exactly when its new centroid is past the line, and afterwards
\* the counter keeps its value. Scenario B (line 300, down, cy 250, 280, 310,
\* 340) shows total_count 0, 0, 1, 1.
C5_CountedAtFirstCrossing ==
    [][ /\ \A i \in 1..Len(tracked') : ~tracked'[i].counted => ~PastLine(tracked'[i].c)
        /\ SingleTrackAdvances =>
            /\ Len(tracked') = 1
            /\ tracked'[1].id = tracked[1].id
            /\ tracked'[1].c = centroids'[1]
            /\ IF tracked[1].counted
               THEN tracked'[1].counted /\ total_count' = total_count
               ELSE IF PastLine(centroids'[1])
                    THEN tracked'[1].counted /\ total_count' = total_count + 1
                    ELSE ~tracked'[1].counted /\ total_count' = total_count
        /\ (scenB' >= 1 /\ direction = "down" /\ line_position = DefaultLine) =>
            /\ total_count' = << 0, 0, 1, 1 >>[scenB']
            /\ tracked' = << [id |-> 0, c |-> ScenarioB[scenB'][1], counted |-> scenB' >= 3] >> ]_vars

\* scenario B has been played to its end
C5_Witness ==
    /\ scenB = Len(ScenarioB)
    /\ direction = "down"
    /\ line_position = DefaultLine
    /\ total_count = 1

\* the live track set as a set of (id, centroid) pairs
LiveSet(trk) == { << trk[i].id, trk[i].c >> : i \in 1..Len(trk) }

\* C6: scenario A. After the frame (100,100), (500,500) of a fresh session
\* the live tracks are 0 and 1 at these centroids; after the following frame
\* (105,104), (800,800) they are exactly track 0 at (105,104) and track 2 at
\* (800,800).
C6_ScenarioA ==
    /\ scenA = 1 => LiveSet(tracked) = { << 0, <<100, 100>> >>, << 1, <<500, 500>> >> }
    /\ scenA = 2 => /\ LiveSet(tracked) = { << 0, <<105, 104>> >>, << 2, <<800, 800>> >> }
                    /\ Len(tracked) = 2

\* scenario A has been played to its end
C6_Witness == scenA = Len(ScenarioA) /\ next_id = 3 /\ pool = PoolA

\* C7: the tracks a frame creates get the ids next_id, next_id + 1, ... in the
\* order of their detections, above every id allocated so far (live or
\* dropped), the first id of a session being 0; a new track enters the
\* counting loop with counted = false, so after the frame it is counted exactly
\* when its centroid is past the line.
C7_FreshIncreasingIds ==
    [][ /\ \A i \in 1..Len(tracked') : tracked'[i].id < next_id'
        /\ next_id' >= next_id
        /\ pc = "opened" /\ pc' = "loop" => next_id' = 0 /\ tracked' = << >>
        /\ FrameStep =>
            LET new == { i \in 1..Len(tracked') : tracked'[i].id \notin Ids(tracked) }
            IN  /\ { tracked'[i].id : i \in new } = next_id..(next_id' - 1)
                /\ \A i, j \in new : i < j => tracked'[i].id < tracked'[j].id
                /\ \A i \in new : tracked'[i].counted <=> PastLine(tracked'[i].c) ]_vars

\* ids 0 and 1 were allocated and dropped, the only live track has id 2
C7_Witness == next_id = 3 /\ Ids(tracked) = { 2 } /\ pc = "write"

\* track i of trk is the first one, in insertion order, within the threshold of c
FirstNear(trk, i, c) ==
    /\ Dist2(c, trk[i].c) < DistThreshold * DistThreshold
    /\ \A j \in 1..(i - 1) : ~(Dist2(c, trk[j].c) < DistThreshold * DistThreshold)

\* C8: after a frame the live set holds exactly the ids assigned to the
\* frame's detections: an existing track stays iff some detection was matched
\* to it, every live track carries the centroid of a detection, a frame
\* without detections leaves no track, and an id that is not live (dropped
\* earlier) is not live after the frame either.
C8_LiveSetIsAssignedIds ==
    [][ FrameStep =>
        /\ \A i \in 1..Len(tracked) :
            (tracked[i].id \in Ids(tracked'))
                <=> (\E k \in 1..Len(centroids') : FirstNear(tracked, i, centroids'[k]))
        /\ \A i \in 1..Len(tracked') : \E k \in 1..Len(centroids') : tracked'[i].c = centroids'[k]
        /\ Cardinality({ i \in 1..Len(tracked') : tracked'[i].id \notin Ids(tracked) })
            = Cardinality({ k \in 1..Len(centroids') :
                            \A i \in 1..Len(tracked) : ~FirstNear(tracked, i, centroids'[k]) })
        /\ centroids' = << >> => tracked' = << >>
        /\ \A id \in 0..(next_id - 1) : id \notin Ids(tracked) => id \notin Ids(tracked') ]_vars

\* a frame without detections has emptied a live set that held tracks
C8_Witness == pc = "write" /\ centroids = << >> /\ tracked = << >> /\ next_id = 2

\* C9: a matched track takes the centroid of a detection matched to it and
\* keeps its counted flag: a counted track stays counted and is not credited
\* again, wherever its centroid moves, and an uncounted one stays uncounted
\* unless its new centroid is past the line.
C9_StickyFlag ==
    [][ FrameStep =>
        \A i \in 1..Len(tracked) :
            LET id == tracked[i].id
            IN  id \in Ids(tracked') =>
                /\ \E k \in 1..Len(centroids') :
                    /\ FirstNear(tracked, i, centroids'[k])
                    /\ CentroidOf(tracked', id) = centroids'[k]
                /\ tracked[i].counted =>
                    /\ FlagOf(tracked', id)
                    /\ credits'[id + 1] = credits[id + 1]
                /\ (~tracked[i].counted /\ ~PastLine(CentroidOf(tracked', id)))
                    => ~FlagOf(tracked', id) ]_vars

\* direction up: track 0 was counted above the line and has moved back below it
C9_Witness ==
    /\ pool = PoolU
    /\ direction = "up"
    /\ tracked = << [id |-> 0, c |-> <<100, 310>>, counted |-> TRUE] >>
    /\ total_count = 1

\* C10: when the session function is left after the capture handle was
\* acquired, by return or by an exception, the capture handle is released and
\* the muxing subprocess, if started, is no longer running with an open pipe.
C10_CleanupOnEveryExit ==
    (pc \in { "returned", "raised" } /\ cap # "none") =>
        /\ cap = "released"
        /\ ffmpeg \in { "none", "exited", "terminated" }

\* C11: a broken pipe on the write to the muxing subprocess ends the loop in
\* that iteration: the step that meets it goes to the cleanup with no frame
\* state touched, and the only step after it is the cleanup, which releases the
\* capture, leaves the subprocess stopped (never running again), reads and
\* writes no further frame and returns normally.
C11_BrokenPipeEndsSession ==
    [][ /\ (pc = "write" /\ event' = "broken_pipe")
            => /\ pc' = "finally"
               /\ ffmpeg' \in { "running", "exited" }
               /\ UNCHANGED << centroids, tracked, next_id, total_count >>
        /\ event = "broken_pipe"
            => /\ pc = "finally"
               /\ pc' = "returned"
               /\ cap' = "released"
               /\ ffmpeg' \in { "exited", "terminated" }
               /\ UNCHANGED << centroids, tracked, next_id, total_count, attempts >> ]_vars

C11_Witness ==
    /\ pc = "returned"
    /\ kind = "rtmp"
    /\ ffmpeg = "exited"
    /\ cap = "released"
    /\ attempts = 1

\* C12: when the send of a frame message fails because the peer disconnected,
\* the loop ends there: that message was tried once, the only step that
\* follows is the finally block, which releases the capture handle, and no
\* further frame is processed or sent.
C12_DisconnectEndsSession ==
    [][ /\ (pc = "ws_send" /\ event' = "disconnect")
            => /\ pc' = "ws_finally"
               /\ attempts' = 1
               /\ in_hand' = 0
        /\ event = "disconnect"
            => /\ pc = "ws_finally"
               /\ pc' = "returned"
               /\ cap' = "released"
               /\ UNCHANGED << frame_count, attempts, in_hand >> ]_vars

C12_Witness ==
    /\ pc = "returned"
    /\ ws = "disconnected"
    /\ cap = "released"
    /\ frame_count >= 2
    /\ attempts = 1

\* C13: an error raised by the detector, the face matcher or the notifier
\* during a cycle is caught at that call: the step that meets it carries on
\* to the emission of the frame, so the session goes on.
C13_CollaboratorErrorsContained ==
    [][ (event' \in { "detector_error", "matcher_error", "notifier_error" } /\ event' # event)
            => pc' \in { "write", "ws_send" } ]_vars

\* C14: a session whose capture handle failed to open ends at once: it never
\* enters the capture loop, starts no muxing subprocess, hands nothing to a
\* sink, and what it reports is not the end-of-stream message.
C14_OpenFailureEndsSession ==
    (cap # "none" /\ ~cap_ok)
        => /\ pc \in { "opened", "returned", "raised" }
           /\ ffmpeg = "none"
           /\ event # "read_failed"
           /\ attempts = 0

\* C15 as stated: every captured frame is handed to the sink exactly once, so
\* outside the emission step of its own cycle no captured frame is still
\* waiting to be handed over.
C15_HandedExactlyOnce ==
    /\ attempts <= 1
    /\ pc \notin { "write", "ws_send" } => in_hand = 0

\* C15 amended: a captured frame is handed to the sink at most once; the
\* hand-over happens in the emission step of the cycle that captured the
\* frame, before the next capture, and leaves that step whether it succeeded or
\* failed (no second try, nothing queued); a frame is captured only when no
\* earlier frame is in the emission step; a cycle that gets past the emission
\* step has handed its frame exactly once.
C15_HandedAtMostOnce ==
    [][ /\ attempts' <= 1
        /\ in_hand' <= 1
        /\ attempts' = attempts + 1
            => /\ pc \in { "write", "ws_send" }
               /\ pc' \notin { "write", "ws_send" }
               /\ in_hand = 1
               /\ in_hand' = 0
        /\ (pc' \in { "write", "ws_send" } /\ pc # pc')
            => /\ pc \in { "loop", "ws_loop" }
               /\ in_hand = 0
               /\ in_hand' = 1
               /\ attempts' = 0
        /\ pc' \in { "waitkey", "pace", "paced" }
            => (attempts' = 1 /\ in_hand' = 0) ]_vars

C15_Witness ==
    /\ pc = "waitkey"
    /\ attempts = 1
    /\ in_hand = 0
    /\ total_count >= 1

\* C16: after a cycle that took d ticks the frame rate control sleeps
\* frame_interval - d and does not warn when d < frame_interval; when
\* d >= frame_interval (equality included) it does not sleep, and it warns
\* once if the source is a file and not at all if it is a live camera.
C16_Pacing ==
    [][ \A d \in Durations :
            Pace(d) =>
                IF d < TicksPerSecond \div fps
                THEN slept' = (TicksPerSecond \div fps) - d /\ ~warned'
                ELSE slept' = 0 /\ (warned' <=> ~showCam) ]_vars

C16_Witness ==
    /\ pc = "paced"
    /\ ~showCam
    /\ fps = 25
    /\ slept = 0
    /\ warned

\* a frame of a WebSocket session is processed: process_frame_realtime returns
WsFrameStep == pc = "ws_loop" /\ pc' = "ws_send"

TierOf(n) ==
    IF n * 10000 < FrameWidth * FrameHeight THEN 1
    ELSE IF n * 20000 < 3 * FrameWidth * FrameHeight THEN 2
    ELSE IF n * 5000 < FrameWidth * FrameHeight THEN 3
    ELSE 4
RiskTiers == << "Low", "Medium", "High", "Critical" >>
StatusTiers == << "Stable", "Unstable", "Congested", "Critical" >>

\* C18: the risk and the status of a frame are the labels of one and the same
\* tier, the tier its density has under the boundaries 1e-4, 1.5e-4, 2e-4: the
\* pair is (Low, Stable), (Medium, Unstable), (High, Congested) or
\* (Critical, Critical).
C18_SameTier ==
    pc = "ws_send" =>
        /\ risk = RiskTiers[TierOf(people_count)]
        /\ status = StatusTiers[TierOf(people_count)]

C18_Witness ==
    /\ pc = "ws_send"
    /\ people_count = 47
    /\ risk = "High"
    /\ status = "Congested"

\* the position of a label in its ascending order
RankIn(tiers, label) == CHOOSE i \in 1..Len(tiers) : tiers[i] = label

\* C19: at the fixed frame area a larger person count never has a lower risk
\* tier or status tier: the labels of the frame being sent are not below those
\* of any smaller count and not above those of any larger count.
C19_TierMonotone ==
    pc = "ws_send" =>
        \A m \in 0..MaxPeople :
            /\ m <= people_count =>
                /\ RankIn(RiskTiers, get_crowd_risk(Density(m, FrameHeight * FrameWidth)))
                       <= RankIn(RiskTiers, risk)
                /\ RankIn(StatusTiers, get_crowd_status(Density(m, FrameHeight * FrameWidth)))
                       <= RankIn(StatusTiers, status)
            /\ m >= people_count =>
                /\ RankIn(RiskTiers, get_crowd_risk(Density(m, FrameHeight * FrameWidth)))
                       >= RankIn(RiskTiers, risk)
                /\ RankIn(StatusTiers, get_crowd_status(Density(m, FrameHeight * FrameWidth)))
                       >= RankIn(StatusTiers, status)

C19_Witness ==
    /\ pc = "ws_send"
    /\ people_count = 31
    /\ risk = "Medium"
    /\ status = "Unstable"

\* C20: the threshold steers only the annotation and the notification: a
\* session with another threshold that is fed the same frames has, after every
\* frame, the same live tracks with the same counted flags, the same next_id
\* and the same total_count, also once the count is above the threshold.
C20_ThresholdLeavesCountingAlone ==
    /\ twin.tracked = tracked
    /\ twin.next_id = next_id
    /\ twin.total_count = total_count

C20_Witness ==
    /\ threshold_count # TwinThreshold
    /\ total_count > threshold_count + 1
    /\ twin.total_count = total_count
    /\ send_counter = SendLimit

\* C21: every buffer written to the muxing subprocess's stdin has exactly
\* width x height x 3 bytes (800 x 600, bgr24), for every source frame size
C21_BufferSize ==
    (kind = "rtmp" /\ attempts > 0) => written = Width * Height * BytesPerPixel

\* the frame rate cap.get(CAP_PROP_FPS) reports: 0 for a source that is not open
ReportedFps == IF cap_ok THEN src_fps ELSE 0

\* C24: the target frame rate is 30 for a live camera; for a file it is the
\* reported rate when that is positive and 30 when it is zero or negative, so
\* frame_interval = 1 / fps is positive in every session
C24_TargetFps ==
    (kind = "rtmp" /\ pc # "start") =>
        /\ showCam => fps = 30
        /\ (~showCam /\ ReportedFps > 0) => fps = ReportedFps
        /\ (~showCam /\ ReportedFps <= 0) => fps = 30
        /\ fps > 0

\* a file that reports a negative rate has been opened and the session runs at 30
C24_Witness ==
    /\ kind = "rtmp"
    /\ pc = "loop"
    /\ ~showCam
    /\ cap_ok
    /\ src_fps < 0
    /\ fps = 30

\* detection k of the frame being processed lies 50 px or more from every live
\* track: a person who was not detected in the previous frame, or who jumped
Unmatched(k) ==
    \A i \in 1..Len(tracked) :
        Dist2(centroids'[k], tracked[i].c) >= DistThreshold * DistThreshold

\* C25: a person who has been counted, is then not matched for a frame (no
\* detection, or a jump of 50 px or more), and is detected again past the line
\* receives a new track id with counted = false and increments total_count a
\* second time: every unmatched detection past the line gets an id that was
\* never used, is credited with an increment, and total_count grows.
C25_RecountAfterLoss ==
    [][ FrameStep =>
        \A k \in 1..Len(centroids') :
            (Unmatched(k) /\ PastLine(centroids'[k])) =>
                /\ \E i \in 1..Len(tracked') :
                    /\ tracked'[i].id >= next_id
                    /\ tracked'[i].c = centroids'[k]
                    /\ tracked'[i].counted
                    /\ credits'[tracked'[i].id + 1] = 1
                /\ total_count' > total_count ]_vars

\* the single person of the scene was counted as track 0, was missing for a
\* frame, and has been counted again as track 1
C25_Witness ==
    /\ pool = PoolC
    /\ pc = "write"
    /\ tracked = << [id |-> 1, c |-> <<100, 310>>, counted |-> TRUE] >>
    /\ credits = << 1, 1 >>
    /\ total_count = 2

\* C26: a newly created track whose first centroid already satisfies the
\* crossing predicate is counted in the very frame in which it is created:
\* a track whose id is new in a frame leaves the frame counted, with one
\* increment credited to it, exactly when its centroid is past the line.
C26_CountedAtCreation ==
    [][ FrameStep =>
        /\ \A i \in 1..Len(tracked') :
            tracked'[i].id >= next_id =>
                /\ tracked'[i].counted <=> PastLine(tracked'[i].c)
                /\ credits'[tracked'[i].id + 1] = IF PastLine(tracked'[i].c) THEN 1 ELSE 0
        /\ total_count' >= total_count
              + Cardinality({ i \in 1..Len(tracked') :
                                tracked'[i].id >= next_id /\ PastLine(tracked'[i].c) }) ]_vars

\* the first frame of a session shows one person below the line: track 0 is
\* created and counted in that frame
C26_Witness ==
    /\ pool = PoolC
    /\ pc = "write"
    /\ next_id = 1
    /\ tracked = << [id |-> 0, c |-> <<100, 310>>, counted |-> TRUE] >>
    /\ credits = << 1 >>
    /\ total_count = 1

\* C27: the alert latch is consumed by the attempt, not by delivery: if the
\* notifier is not configured or its request raises on the frame where the
\* latch fires, the latch is set all the same, and no notification is
\* attempted on any later frame of the session even though total_count stays
\* above threshold_count.
C27_LatchConsumedByAttempt ==
    [][ (FrameStep /\ notifier \in { "unconfigured", "raises" }) =>
        /\ notify_calls' > notify_calls =>
              /\ send_counter' = 1
              /\ event' \in { "notifier_unconfigured", "notifier_error" }
        /\ notify_calls >= 1 =>
              /\ notify_calls' = notify_calls
              /\ event' = "none" ]_vars

\* a frame after the failed attempt: the count is above the threshold and
\* nothing was sent or attempted in this frame
C27_Witness ==
    /\ notifier \in { "unconfigured", "raises" }
    /\ pc = "write"
    /\ notify_calls = 1
    /\ send_counter = 1
    /\ total_count > threshold_count
    /\ event = "none"

\* C28: in every metrics payload the risk and status labels equal the
\* classification, by get_crowd_risk and get_crowd_status, of the density
\* value reported in that payload (the density rounded to 6 decimals), for
\* every person count at the fixed 640x480 frame area
C28_LabelsOfReportedDensity ==
    pc = "ws_send" =>
        /\ risk = get_crowd_risk(Density(density6, 1000000))
        /\ status = get_crowd_status(Density(density6, 1000000))

\* C29: the face-match call is made only when GET /faces would list at least
\* one known face at that moment: in every state of the known_faces directory
\* reachable through POST /faces, DELETE /faces and the matcher writing its
\* cache file, the gate's registry-non-empty test (os.listdir is non-empty)
\* and the face listing agree
C29_GateAgreesWithListing ==
    kind = "faces" => ((db # { }) <=> (KnownFaces(db) # { }))

\* a face-management request is handled
RequestStep == pc = "serving" /\ pc' = "responded"

\* C30: after any sequence of POST /faces and DELETE /faces calls, a
\* DELETE /faces/{name} that returns success leaves GET /faces without that
\* name; a name is never stored twice, because POST /faces with a name that is
\* already stored is rejected with 409 and changes nothing
C30_DeleteRemovesName ==
    [][ /\ (RequestStep /\ response'.op = "DELETE" /\ response'.code = 200)
            => response'.name \notin KnownFaces(db')
        /\ (RequestStep /\ response'.op = "POST" /\ response'.name \in KnownFaces(db))
            => (response'.code \in { 400, 409 } /\ db' = db) ]_vars

\* a frame of another session is processed while this WebSocket session runs
OtherSessionStep == kind = "ws" /\ pc' = pc /\ db' # db

Ending == pc \in { "finally", "ws_finally", "returned", "raised" }

\* C23: the first failed frame read ends the session, for file and live
\* sources alike: the read is not retried, no further frame is processed or
\* emitted, and the loop terminates and reaches cleanup, so a source that
\* delivers finitely many frames always leads to the end of the session
\* (given that each collaborator call and each sink write returns).
C23_ReadFailureEndsSession ==
    /\ [][ /\ (pc \in { "loop", "ws_loop" } /\ frames_left = 0 /\ pc' # pc)
               => pc' \in { "finally", "ws_finally" }
           /\ (pc \in { "loop", "ws_loop" } /\ frames_left = 0)
               => UNCHANGED << in_hand, attempts, frame_count, tracked, total_count >>
           /\ Ending
               => /\ pc' \in { pc, "returned", "raised" }
                  /\ UNCHANGED << in_hand, attempts, frame_count, tracked, total_count,
                                  frames_left >> ]_vars
    /\ (kind \in { "rtmp", "ws" }) ~> (pc \in { "returned", "raised" })

\* a file of two frames was played to its end, the third read failed, and the
\* session has left the loop for its cleanup with every frame handed over
C23_Witness ==
    /\ kind = "rtmp"
    /\ pc = "finally"
    /\ event = "read_failed"
    /\ frames_left = 0
    /\ pool = PoolU
    /\ next_id = 2
    /\ Len(tracked) = 2
    /\ in_hand = 0

====
